---------------------------- MODULE Spec2Model ----------------------------
(***************************************************************************)
(* Model of the photonic circuit simulation core of LUXBIN                 *)
(* (src/luxbin/quantum/photonics/circuits.py): PhotonicMode, BeamSplitter, *)
(* PhaseShifter, PhotonicCircuit and QuantumPhotonicInterferometer.        *)
(*                                                                         *)
(* Numbers.  Amplitudes are exact elements of Z[i, sqrt 2][1/2]:           *)
(*   [re, im, sre, sim, n]  stands for                                     *)
(*   ((re + i*im) + (sre + i*sim)*sqrt(2)) / 2^n,                          *)
(* kept in lowest terms, so equal numbers have equal representations.      *)
(* Reflectivities are counted in halves (0, 1, 2 for 0.0, 0.5, 1.0) and    *)
(* angles given by the caller in quarter turns (1 for pi/2).  Floating     *)
(* point rounding is not modelled.                                         *)
(***************************************************************************)
EXTENDS Integers, Sequences, FiniteSets, TLC

VARIABLES
    components,             \* self.components: insertion-ordered dict, as a sequence of component records
    connections,            \* self.connections: insertion-ordered dict, as a sequence of <<from_key, to_key>>
    input_modes,            \* self.input_modes: declared circuit input names
    output_modes,           \* self.output_modes: declared circuit output names
    pc,                     \* position of the (single-threaded) caller: "idle", "while", "for", "returned"
    sim_inputs,             \* simulate's argument input_modes (the caller's mapping)
    mode_states,            \* simulate's local mode_states
    processed_components,   \* simulate's local processed_components
    idx,                    \* position of the for loop of line 197 in components
    passes,                 \* history: iterations of the while loop of line 196 begun in this call
    progress,               \* history: whether the current pass processed a component
    final_outputs,          \* the mapping the last simulate call returned
    memo,                   \* history: one earlier returned call on this circuit,
                            \* <<inputs, outputs, whether a call with other inputs began since>>
    shifter,                \* a PhaseShifter object two threads hold, None when there is none
    set_call,               \* the set_phase call of the owning thread: its argument and its position
    seen,                   \* what the other thread last read from shifter
    splitter,               \* the last BeamSplitter(...) call: its arguments and its outcome
    applied,                \* history: the last apply_transformation call made on shifter or splitter
    log,                    \* history: the apply_transformation calls made by the running simulate call, in order
    threads,                \* the simulate calls of several threads on one circuit, None when there are none
    nv_centers,             \* NVCenterControl.nv_centers: insertion-ordered dict, None when no controller exists
    nv_call,                \* history: the last call made on the controller and how it ended
    objects                 \* the PhotonicMode objects by identity and the references a caller and a
                            \* simulate call hold to them, None when modes are taken by value

vars == <<components, connections, input_modes, output_modes, pc, sim_inputs,
          mode_states, processed_components, idx, passes, progress,
          final_outputs, memo, shifter, set_call, seen, splitter, applied,
          log, threads, nv_centers, nv_call, objects>>

circuit == <<components, connections, input_modes, output_modes>>

\* the locals and the history of the simulate calls
simulation == <<pc, sim_inputs, mode_states, processed_components, idx, passes,
                progress, final_outputs, memo, log>>

\* single component objects held outside any circuit
bench == <<shifter, set_call, seen, splitter, applied>>

\* the calls of further threads and the NV center controller
others == <<threads, nv_centers, nv_call, objects>>

-----------------------------------------------------------------------------
(* Exact complex arithmetic *)

Max(a, b) == IF a >= b THEN a ELSE b

RECURSIVE Pow2(_)
Pow2(k) == IF k <= 0 THEN 1 ELSE 2 * Pow2(k - 1)

Amp(re, im, sre, sim, n) == [re |-> re, im |-> im, sre |-> sre, sim |-> sim, n |-> n]

IsEven(k) == k % 2 = 0

RECURSIVE Norm(_)
Norm(z) ==
    IF z.re = 0 /\ z.im = 0 /\ z.sre = 0 /\ z.sim = 0 THEN Amp(0, 0, 0, 0, 0)
    ELSE IF z.n > 0 /\ IsEven(z.re) /\ IsEven(z.im) /\ IsEven(z.sre) /\ IsEven(z.sim)
         THEN Norm(Amp(z.re \div 2, z.im \div 2, z.sre \div 2, z.sim \div 2, z.n - 1))
         ELSE z

CZero == Amp(0, 0, 0, 0, 0)
COne  == Amp(1, 0, 0, 0, 0)
CI    == Amp(0, 1, 0, 0, 0)

CRaise(z, m) ==
    LET f == Pow2(m - z.n) IN Amp(z.re * f, z.im * f, z.sre * f, z.sim * f, m)

CAdd(x, y) ==
    LET m == Max(x.n, y.n)
        a == CRaise(x, m)
        b == CRaise(y, m)
    IN  Norm(Amp(a.re + b.re, a.im + b.im, a.sre + b.sre, a.sim + b.sim, m))

CNeg(z) == Amp(0 - z.re, 0 - z.im, 0 - z.sre, 0 - z.sim, z.n)

\* (a + b*s)(c + d*s) = (ac + 2bd) + (ad + bc)*s with s = sqrt 2 and a, b, c, d Gaussian integers
CMul(x, y) ==
    LET acr == x.re * y.re - x.im * y.im
        aci == x.re * y.im + x.im * y.re
        bdr == x.sre * y.sre - x.sim * y.sim
        bdi == x.sre * y.sim + x.sim * y.sre
        adr == x.re * y.sre - x.im * y.sim
        adi == x.re * y.sim + x.im * y.sre
        bcr == x.sre * y.re - x.sim * y.im
        bci == x.sre * y.im + x.sim * y.re
    IN  Norm(Amp(acr + 2 * bdr, aci + 2 * bdi, adr + bcr, adi + bci, x.n + y.n))

\* the exception math.sqrt raises ("math domain error")
ValueError == [raised |-> "ValueError"]

\* the square root of a number h >= 0 of halves: sqrt(0) = 0, sqrt(1/2) = sqrt(2)/2,
\* sqrt(1) = 1, sqrt(2) = sqrt(2); any other root is outside the ring and kept as a symbol
Root(h) ==
    IF h = 0 THEN CZero
    ELSE IF h = 1 THEN Amp(0, 0, 1, 0, 1)
    ELSE IF h = 2 THEN COne
    ELSE IF h = 4 THEN Amp(0, 0, 1, 0, 0)
    ELSE [root_of_halves |-> h]

\* variant: the number itself is taken, not its root
SqrtOmitted(h) == IF h < 0 THEN ValueError ELSE Norm(Amp(h, 0, 0, 0, 1))

\* variant: the root of a negative number is 0 and nothing is raised
SqrtClamped(h) == IF h < 0 THEN CZero ELSE Root(h)

\* math.sqrt of a number of halves: it raises ValueError below 0
Sqrt(h) == IF h < 0 THEN ValueError ELSE Root(h)

\* np.exp(1j * phi) for phi a number of quarter turns
Exp1j(q) ==
    LET k == q % 4
    IN  IF k = 0 THEN COne ELSE IF k = 1 THEN CI ELSE IF k = 2 THEN CNeg(COne) ELSE CNeg(CI)

\* sign of a + b*sqrt(2) for integers a, b
SignSqrt2(a, b) ==
    IF a = 0 /\ b = 0 THEN 0
    ELSE IF a >= 0 /\ b >= 0 THEN 1
    ELSE IF a <= 0 /\ b <= 0 THEN -1
    ELSE IF a > 0 THEN (IF a * a > 2 * b * b THEN 1 ELSE -1)
    ELSE (IF 2 * b * b > a * a THEN 1 ELSE -1)

\* A phase is turns * (pi/2) + arg(of), arg the principal argument in (-pi, pi].
Phase(turns, of) == [turns |-> turns, of |-> of]

\* np.angle(z): exact on the axes (and 0 for z = 0), otherwise the symbol arg(z)
Angle(z) ==
    LET sr == SignSqrt2(z.re, z.sre)
        si == SignSqrt2(z.im, z.sim)
    IN  IF si = 0 THEN (IF sr >= 0 THEN Phase(0, COne) ELSE Phase(2, COne))
        ELSE IF sr = 0 THEN (IF si > 0 THEN Phase(1, COne) ELSE Phase(-1, COne))
        ELSE Phase(0, z)

\* phase + theta, theta a number of quarter turns
PhasePlus(p, q) == Phase(p.turns + q, p.of)

-----------------------------------------------------------------------------
(* PhotonicMode and dict helpers *)

PhotonicMode(mode_id, frequency, polarization, amplitude, phase) ==
    [mode_id |-> mode_id, frequency |-> frequency, polarization |-> polarization,
     amplitude |-> amplitude, phase |-> phase]

EmptyDict == [k \in {} |-> k]

\* dict.get(key, default)
Get(d, key, default) == IF key \in DOMAIN d THEN d[key] ELSE default

\* d[key] = value
Put(d, key, value) == [k \in (DOMAIN d) \cup {key} |-> IF k = key THEN value ELSE d[k]]

-----------------------------------------------------------------------------
(* Components *)

\* variant: both diagonal entries are r
TransferMatrixSymmetric(r, t, e) == << <<r, CMul(t, e)>>, <<CMul(t, e), r>> >>

\* variant: the entries of each row change places
TransferMatrixCrossed(r, t, e) == << <<CMul(t, e), r>>, <<CNeg(r), CMul(t, e)>> >>

\* lines 68-71: the beam splitter matrix
TransferMatrix(r, t, e) == << <<r, CMul(t, e)>>, <<CMul(t, e), CNeg(r)>> >>

\* BeamSplitter.__init__; reflectivity and transmissivity in halves, phase_difference
\* in quarter turns.  The call gives the object, or the exception of lines 64-65.
BeamSplitter(name, reflectivity, phase_difference) ==
    LET transmissivity == 2 - reflectivity
        r == Sqrt(reflectivity)
        t == Sqrt(transmissivity)
        e == Exp1j(phase_difference)
    IN  IF r = ValueError \/ t = ValueError THEN ValueError
        ELSE [kind |-> "BeamSplitter", name |-> name,
              reflectivity |-> reflectivity, transmissivity |-> transmissivity,
              phase_difference |-> phase_difference,
              transformation_matrix |-> TransferMatrix(r, t, e),
              input_ports |-> <<"input1", "input2">>,
              output_ports |-> <<"output1", "output2">>]

\* PhaseShifter.__init__; phase_shift in quarter turns
PhaseShifter(name, phase_shift) ==
    [kind |-> "PhaseShifter", name |-> name, phase_shift |-> phase_shift,
     transformation_matrix |-> << <<Exp1j(phase_shift)>> >>,
     input_ports |-> <<"input">>,
     output_ports |-> <<"output">>]

\* BeamSplitter.apply_transformation
BeamSplitterApply(self, modes) ==
    LET amp1 == Get(modes, "input1", PhotonicMode("input1", 0, "H", CZero, Phase(0, COne))).amplitude
        amp2 == Get(modes, "input2", PhotonicMode("input2", 0, "H", CZero, Phase(0, COne))).amplitude
        M == self.transformation_matrix
        output_vector == << CAdd(CMul(M[1][1], amp1), CMul(M[1][2], amp2)),
                            CAdd(CMul(M[2][1], amp1), CMul(M[2][2], amp2)) >>
        frequency == Get(modes, "input1", PhotonicMode("", 0, "", CZero, Phase(0, COne))).frequency
        polarization == Get(modes, "input1", PhotonicMode("", 0, "H", CZero, Phase(0, COne))).polarization
        ports == self.output_ports
    IN  [port \in {ports[i] : i \in 1..Len(ports)} |->
            LET i == CHOOSE j \in 1..Len(ports) : ports[j] = port
            IN  PhotonicMode(port, frequency, polarization,
                             output_vector[i], Angle(output_vector[i]))]

\* variant: the shift is applied without its sign
PhaseShifterApplyMagnitude(self, modes) ==
    LET input_mode == Get(modes, "input", PhotonicMode("input", 0, "H", CZero, Phase(0, COne)))
        shift == IF self.phase_shift < 0 THEN 0 - self.phase_shift ELSE self.phase_shift
    IN  [port \in {"output"} |->
            PhotonicMode("output", input_mode.frequency, input_mode.polarization,
                         CMul(input_mode.amplitude, Exp1j(shift)),
                         PhasePlus(input_mode.phase, shift))]

\* PhaseShifter.apply_transformation
PhaseShifterApply(self, modes) ==
    LET input_mode == Get(modes, "input", PhotonicMode("input", 0, "H", CZero, Phase(0, COne)))
        new_amplitude == CMul(input_mode.amplitude, Exp1j(self.phase_shift))
    IN  [port \in {"output"} |->
            PhotonicMode("output", input_mode.frequency, input_mode.polarization,
                         new_amplitude, PhasePlus(input_mode.phase, self.phase_shift))]

\* component.apply_transformation(comp_inputs), dispatched on the component's class
apply_transformation(component, comp_inputs) ==
    IF component.kind = "BeamSplitter"
    THEN BeamSplitterApply(component, comp_inputs)
    ELSE PhaseShifterApply(component, comp_inputs)

-----------------------------------------------------------------------------
(* PhotonicCircuit: construction *)

\* f"{component}:{port}"
Key(component, port) == component \o ":" \o port

\* position of a key in an insertion-ordered dict kept as a sequence, 0 when absent
IndexOfName(comps, name) ==
    IF \E i \in 1..Len(comps) : comps[i].name = name
    THEN CHOOSE i \in 1..Len(comps) : comps[i].name = name
    ELSE 0

IndexOfFrom(conns, from_key) ==
    IF \E i \in 1..Len(conns) : conns[i][1] = from_key
    THEN CHOOSE i \in 1..Len(conns) : conns[i][1] = from_key
    ELSE 0

\* variant: a name that is registered keeps its first component
add_componentKeepFirst(comps, component) ==
    IF IndexOfName(comps, component.name) = 0 THEN Append(comps, component) ELSE comps

\* self.components[component.name] = component: a new key goes last, a known key keeps its place
add_component(comps, component) ==
    LET i == IndexOfName(comps, component.name)
    IN  IF i = 0 THEN Append(comps, component) ELSE [comps EXCEPT ![i] = component]

\* variant: the routes are kept as a list, every call adds one
connectAppending(conns, from_component, from_port, to_component, to_port) ==
    Append(conns, <<Key(from_component, from_port), Key(to_component, to_port)>>)

\* self.connections[from_key] = to_key
connect(conns, from_component, from_port, to_component, to_port) ==
    LET from_key == Key(from_component, from_port)
        to_key == Key(to_component, to_port)
        i == IndexOfFrom(conns, from_key)
    IN  IF i = 0 THEN Append(conns, <<from_key, to_key>>)
        ELSE [conns EXCEPT ![i] = <<from_key, to_key>>]

-----------------------------------------------------------------------------
(* PhotonicCircuit.simulate: the pieces of its body *)

InList(x, list) == \E i \in 1..Len(list) : list[i] = x

\* lines 207-213: the first from_key of self.connections wired to input_key, "" for None
\* (a from_key is never empty: it holds a colon)
SourceKey(conns, input_key) ==
    IF \E i \in 1..Len(conns) : conns[i][2] = input_key
    THEN conns[CHOOSE i \in 1..Len(conns) :
                  /\ conns[i][2] = input_key
                  /\ \A j \in 1..(i - 1) : conns[j][2] # input_key][1]
    ELSE ""

\* line 215: the port is fed by a stored upstream output
FromUpstream(conns, ms, comp_name, input_port) ==
    LET source_key == SourceKey(conns, Key(comp_name, input_port))
    IN  source_key # "" /\ source_key \in DOMAIN ms

\* line 217: the port is fed by a declared circuit input the caller supplied
FromCircuitInput(declared, args, input_port) ==
    InList(input_port, declared) /\ input_port \in DOMAIN args

\* lines 215-221 for one port
PortReady(conns, declared, args, ms, comp_name, input_port) ==
    \/ FromUpstream(conns, ms, comp_name, input_port)
    \/ FromCircuitInput(declared, args, input_port)

\* lines 216 and 218: the mode gathered for a ready port
PortMode(conns, declared, args, ms, comp_name, input_port) ==
    IF FromUpstream(conns, ms, comp_name, input_port)
    THEN ms[SourceKey(conns, Key(comp_name, input_port))]
    ELSE args[input_port]

PortSet(ports) == {ports[i] : i \in 1..Len(ports)}

\* lines 202-221: inputs_ready at the end of the port loop
InputsReady(conns, declared, args, ms, component) ==
    \A input_port \in PortSet(component.input_ports) :
        PortReady(conns, declared, args, ms, component.name, input_port)

\* lines 203-218: comp_inputs when every port is ready
CompInputs(conns, declared, args, ms, component) ==
    [input_port \in PortSet(component.input_ports) |->
        PortMode(conns, declared, args, ms, component.name, input_port)]

\* variant: the outputs are stored under the bare port name
StoreOutputsUnqualified(ms, comp_name, outputs) ==
    [k \in (DOMAIN ms) \cup (DOMAIN outputs) |->
        IF k \in DOMAIN outputs THEN outputs[k] ELSE ms[k]]

\* lines 228-230: mode_states after storing a component's outputs
StoreOutputs(ms, comp_name, outputs) ==
    [k \in (DOMAIN ms) \cup {Key(comp_name, port) : port \in DOMAIN outputs} |->
        IF \E port \in DOMAIN outputs : k = Key(comp_name, port)
        THEN outputs[CHOOSE port \in DOMAIN outputs : k = Key(comp_name, port)]
        ELSE ms[k]]

\* variant: the working map is kept from call to call
InitialModeStatesKept(args) ==
    [k \in (DOMAIN mode_states) \cup (DOMAIN args) |->
        IF k \in DOMAIN args THEN args[k] ELSE mode_states[k]]

\* line 190: mode_states = dict(input_modes)
InitialModeStates(args) == args

\* variant: mode_states is the caller's mapping itself, not a copy
CallerMappingAliased(args, ms) == ms

\* line 190: dict(...) is a copy, so the stores of line 230 into mode_states
\* (ms after them) leave the caller's mapping as it was
CallerMapping(args, ms) == args

\* lines 238-243 for one output name: the components whose stored output port has that name
Providers(comps, ms, output_name) ==
    {i \in 1..Len(comps) :
        /\ output_name \in PortSet(comps[i].output_ports)
        /\ Key(comps[i].name, output_name) \in DOMAIN ms}

\* variant: the search stops at the first provider
ChosenFirst(providers) == CHOOSE i \in providers : \A j \in providers : i <= j

\* lines 238-243: every provider assigns final_outputs[output_name] in turn, the last one stays
Chosen(providers) == CHOOSE i \in providers : \A j \in providers : j <= i

\* variant: every declared output name is bound, to None when nothing provides it
CollectOutputsEveryName(comps, outs, ms) ==
    [output_name \in PortSet(outs) |->
        IF Providers(comps, ms, output_name) = {} THEN [none |-> TRUE]
        ELSE ms[Key(comps[Chosen(Providers(comps, ms, output_name))].name, output_name)]]

\* lines 235-245
CollectOutputs(comps, outs, ms) ==
    [output_name \in {n \in PortSet(outs) : Providers(comps, ms, n) # {}} |->
        ms[Key(comps[Chosen(Providers(comps, ms, output_name))].name, output_name)]]

\* lines 222-232: one apply_transformation call of simulate, with the inputs
\* gathered for it and the outputs it returned
Application(conns, declared, args, ms, component) ==
    LET comp_inputs == CompInputs(conns, declared, args, ms, component)
    IN  [name |-> component.name, comp_inputs |-> comp_inputs,
         outputs |-> apply_transformation(component, comp_inputs)]

\* the locals of a running simulate call
Frame(ms, processed, prog) ==
    [mode_states |-> ms, processed_components |-> processed, progress |-> prog]

\* variant: a component that was processed is taken again
AppliesAgain(comps, conns, declared, args, fr, i) ==
    InputsReady(conns, declared, args, fr.mode_states, comps[i])

\* lines 198-199 and 223: the i-th component is not processed yet and its inputs are ready
Applies(comps, conns, declared, args, fr, i) ==
    /\ comps[i].name \notin fr.processed_components
    /\ InputsReady(conns, declared, args, fr.mode_states, comps[i])

\* lines 197-232: the body of the for loop for the i-th component
Visit(comps, conns, declared, args, fr, i) ==
    LET component == comps[i]
        comp_name == component.name
    IN  IF Applies(comps, conns, declared, args, fr, i)
        THEN Frame(StoreOutputs(fr.mode_states, comp_name,
                       apply_transformation(component,
                           CompInputs(conns, declared, args, fr.mode_states, component))),
                   fr.processed_components \cup {comp_name},
                   TRUE)
        ELSE fr

\* lines 197-232: the for loop from the i-th component on
RECURSIVE RunFor(_, _, _, _, _, _)
RunFor(comps, conns, declared, args, fr, i) ==
    IF i > Len(comps) THEN fr
    ELSE RunFor(comps, conns, declared, args, Visit(comps, conns, declared, args, fr, i), i + 1)

\* what simulate does: it returns a mapping, or never returns
Returns(outputs) == [returns |-> TRUE, outputs |-> outputs]
Hangs == [returns |-> FALSE, outputs |-> EmptyDict]

\* lines 196-245.  A pass that processes nothing leaves mode_states and
\* processed_components as they were, so every later pass is the same pass and
\* the while loop never ends.
RECURSIVE RunWhile(_, _, _, _, _, _)
RunWhile(comps, conns, declared, outs, args, fr) ==
    IF Cardinality(fr.processed_components) < Len(comps)
    THEN LET after == RunFor(comps, conns, declared, args,
                             Frame(fr.mode_states, fr.processed_components, FALSE), 1)
         IN  IF after.progress
             THEN RunWhile(comps, conns, declared, outs, args, after)
             ELSE Hangs
    ELSE Returns(CollectOutputs(comps, outs, fr.mode_states))

\* PhotonicCircuit.simulate as a function of the circuit and the argument
simulate(comps, conns, declared, outs, args) ==
    RunWhile(comps, conns, declared, outs, args, Frame(InitialModeStates(args), {}, FALSE))

-----------------------------------------------------------------------------
(* Bounds and the values the caller draws from *)

MaxComponents == 2
MaxConnections == 2
MaxPasses == 4

\* components a caller constructs and adds
Catalogue ==
    { BeamSplitter("BS1", 1, 0), BeamSplitter("BS2", 1, 1), PhaseShifter("PS", 1),
      PhaseShifter("PS", 3) }

\* connect calls a caller makes: <<from_component, from_port, to_component, to_port>>
Wires ==
    { <<"BS1", "output1", "BS2", "input1">>,
      <<"BS2", "output1", "BS1", "input1">>,
      <<"PS", "output", "BS1", "input1">>,
      <<"PS", "output", "BS2", "input1">>,
      <<"BS9", "output1", "BS2", "input1">>,
      <<"BS1", "output2", "BS2", "inptu2">> }

InputLists ==
    { <<"input1", "input2">>, <<"input", "input2">>, <<"input", "input1", "input2">> }

OutputLists == { <<"output1", "output2">>, <<"output", "output3">> }

Mode0 == PhotonicMode("input", 3, "D", CNeg(COne), Phase(2, COne))
Mode1 == PhotonicMode("input1", 1, "H", COne, Phase(0, COne))
Mode2 == PhotonicMode("input2", 2, "V", CI, Phase(1, COne))
Dark2 == PhotonicMode("input2", 1, "H", CZero, Phase(0, COne))
Photon == PhotonicMode("photon_input", 1, "H", COne, Phase(0, COne))

\* mappings a caller passes to simulate
SimInputs ==
    { EmptyDict,
      ("input1" :> Mode1 @@ "input2" :> Dark2),
      ("input" :> Mode0 @@ "input1" :> Mode1 @@ "input2" :> Mode2),
      ("photon_input" :> Photon) }

-----------------------------------------------------------------------------
(* State machine *)

\* Python's None
None == [none |-> TRUE]

\* no component object is held outside the circuit
NoBench ==
    /\ shifter = None
    /\ set_call = None
    /\ seen = None
    /\ splitter = None
    /\ applied = None

\* no further thread and no NV center controller
NoOthers ==
    /\ threads = None
    /\ nv_centers = None
    /\ nv_call = None
    /\ objects = None

\* PhotonicCircuit.__init__, no call running
Fresh ==
    /\ components = <<>>
    /\ connections = <<>>
    /\ input_modes = <<>>
    /\ output_modes = <<>>
    /\ pc = "idle"
    /\ sim_inputs = EmptyDict
    /\ mode_states = EmptyDict
    /\ processed_components = {}
    /\ idx = 0
    /\ passes = 0
    /\ progress = FALSE
    /\ final_outputs = EmptyDict
    /\ memo = <<>>
    /\ log = <<>>

Init == Fresh /\ NoBench /\ NoOthers

NoCall == pc \in {"idle", "returned"}

\* the caller is back between calls and has changed the circuit: no frame, no history
Forget ==
    /\ pc' = "idle"
    /\ sim_inputs' = EmptyDict
    /\ mode_states' = EmptyDict
    /\ processed_components' = {}
    /\ idx' = 0
    /\ passes' = 0
    /\ progress' = FALSE
    /\ final_outputs' = EmptyDict
    /\ memo' = <<>>
    /\ log' = <<>>
    /\ UNCHANGED <<bench, others>>

AddComponent ==
    /\ NoCall
    /\ \E component \in Catalogue :
        /\ IndexOfName(components, component.name) # 0 \/ Len(components) < MaxComponents
        /\ components' = add_component(components, component)
    /\ UNCHANGED <<connections, input_modes, output_modes>>
    /\ Forget

Connect ==
    /\ NoCall
    /\ \E w \in Wires :
        /\ IndexOfFrom(connections, Key(w[1], w[2])) # 0 \/ Len(connections) < MaxConnections
        /\ connections' = connect(connections, w[1], w[2], w[3], w[4])
    /\ UNCHANGED <<components, input_modes, output_modes>>
    /\ Forget

SetInputs ==
    /\ NoCall
    /\ \E input_mode_names \in InputLists : input_modes' = input_mode_names
    /\ UNCHANGED <<components, connections, output_modes>>
    /\ Forget

SetOutputs ==
    /\ NoCall
    /\ \E output_mode_names \in OutputLists : output_modes' = output_mode_names
    /\ UNCHANGED <<components, connections, input_modes>>
    /\ Forget

\* simulate is called: lines 189-194
SimCall ==
    /\ NoCall
    /\ \E args \in SimInputs :
        /\ sim_inputs' = args
        /\ mode_states' = InitialModeStates(args)
    /\ processed_components' = {}
    /\ pc' = "while"
    /\ idx' = 0
    /\ passes' = 0
    /\ progress' = FALSE
    /\ final_outputs' = EmptyDict
    /\ memo' = IF memo # <<>> /\ sim_inputs' # memo[1][1]
               THEN << <<memo[1][1], memo[1][2], TRUE>> >>
               ELSE memo
    /\ log' = <<>>
    /\ UNCHANGED <<components, connections, input_modes, output_modes, bench, others>>

\* line 196, the test holds: one more pass of the for loop begins
SimPass ==
    /\ pc = "while"
    /\ Cardinality(processed_components) < Len(components)
    /\ pc' = "for"
    /\ idx' = 1
    /\ passes' = IF passes < MaxPasses THEN passes + 1 ELSE passes
    /\ progress' = FALSE
    /\ UNCHANGED <<components, connections, input_modes, output_modes, sim_inputs,
                   mode_states, processed_components, final_outputs, memo, log, bench, others>>

\* the locals after the body of the for loop ran for the component at idx
Visited ==
    Visit(components, connections, input_modes, sim_inputs,
          Frame(mode_states, processed_components, progress), idx)

\* lines 197-232: the body of the for loop for the component at idx
SimVisit ==
    /\ pc = "for"
    /\ mode_states' = Visited.mode_states
    /\ processed_components' = Visited.processed_components
    /\ progress' = Visited.progress
    /\ sim_inputs' = CallerMapping(sim_inputs, Visited.mode_states)
    /\ idx' = idx + 1
    /\ pc' = IF idx = Len(components) THEN "while" ELSE "for"
    /\ log' = IF Applies(components, connections, input_modes, sim_inputs,
                          Frame(mode_states, processed_components, progress), idx)
              THEN Append(log, Application(connections, input_modes, sim_inputs,
                                           mode_states, components[idx]))
              ELSE log
    /\ UNCHANGED <<components, connections, input_modes, output_modes,
                   passes, final_outputs, memo, bench, others>>

\* line 196, the test fails: lines 234-245
SimReturn ==
    /\ pc = "while"
    /\ ~(Cardinality(processed_components) < Len(components))
    /\ final_outputs' = CollectOutputs(components, output_modes, mode_states)
    /\ pc' = "returned"
    /\ \/ memo' = memo
       \/ /\ memo = <<>>
          /\ memo' = << <<sim_inputs, final_outputs', FALSE>> >>
    /\ UNCHANGED <<components, connections, input_modes, output_modes, sim_inputs,
                   mode_states, processed_components, idx, passes, progress, log, bench, others>>

Next ==
    \/ AddComponent
    \/ Connect
    \/ SetInputs
    \/ SetOutputs
    \/ SimCall
    \/ SimPass
    \/ SimVisit
    \/ SimReturn

Spec == Init /\ [][Next]_vars

\* The body of the for loop is enabled exactly when pc = "for", and every step
\* of it advances idx: weak fairness of SimVisit, written on these two facts.
VisitRuns == []<>(pc # "for") \/ []<><<pc = "for" /\ idx' = idx + 1>>_vars

\* A call of simulate that has begun keeps running: Python runs the loop to its
\* end without a suspension point.  Whether and when the caller builds or calls
\* is left open.
Running == WF_vars(SimPass) /\ WF_vars(SimReturn) /\ VisitRuns

-----------------------------------------------------------------------------
(* Circuits built by the repository's constructors, simulated as built *)

MaxPhase == 3

\* phase arguments a caller passes, in quarter turns
PhaseShifts == 0..MaxPhase

Circuit(comps, conns, declared, outs) ==
    [components |-> comps, connections |-> conns, input_modes |-> declared, output_modes |-> outs]

\* QuantumPhotonicInterferometer.__init__
QuantumPhotonicInterferometer(phase_shift) ==
    LET bs1 == BeamSplitter("BS1", 1, 0)
        bs2 == BeamSplitter("BS2", 1, 0)
        ps == PhaseShifter("PS", phase_shift)
        c1 == add_component(<<>>, bs1)
        c2 == add_component(c1, bs2)
        c3 == add_component(c2, ps)
        w1 == connect(<<>>, "BS1", "output1", "PS", "input")
        w2 == connect(w1, "PS", "output", "BS2", "input1")
        w3 == connect(w2, "BS1", "output2", "BS2", "input2")
    IN  Circuit(c3, w3, <<"input">>, <<"output1", "output2">>)

\* create_bell_state_preparation_circuit
create_bell_state_preparation_circuit ==
    Circuit(add_component(<<>>, BeamSplitter("PBS", 1, 0)), <<>>,
            <<"photon_input">>, <<"output_H", "output_V">>)

\* the circuit of test_photonic_circuit_basic
TestCircuit ==
    Circuit(add_component(<<>>, BeamSplitter("BS1", 1, 0)), <<>>,
            <<"input1", "input2">>, <<"output1", "output2">>)

\* two beam splitters wired in a ring on their first ports, the second ports
\* fed by the circuit input input2
RingCircuit ==
    Circuit(add_component(add_component(<<>>, BeamSplitter("BS1", 1, 0)), BeamSplitter("BS2", 1, 1)),
            connect(connect(<<>>, "BS1", "output1", "BS2", "input1"), "BS2", "output1", "BS1", "input1"),
            <<"input", "input2">>, <<"output2">>)

BuiltCircuits ==
    {QuantumPhotonicInterferometer(phase) : phase \in PhaseShifts}
        \cup {create_bell_state_preparation_circuit, TestCircuit, RingCircuit}

\* variant: the stored parameter is left as it was
StorePhaseShiftKept(self, phase) == self

\* line 142: self.phase_shift = phase
StorePhaseShift(self, phase) == [self EXCEPT !.phase_shift = phase]

\* variant: the matrix is left as it was
StoreTransformationMatrixKept(self, phase) == self

\* line 143: self.transformation_matrix = np.array([[np.exp(1j * phase)]])
StoreTransformationMatrix(self, phase) ==
    [self EXCEPT !.transformation_matrix = << <<Exp1j(phase)>> >>]

\* PhaseShifter.set_phase, run from its first line to its last
set_phase(self, phase) ==
    StoreTransformationMatrix(StorePhaseShift(self, phase), phase)

\* QuantumPhotonicInterferometer.set_phase_shift
set_phase_shift(comps, phase) ==
    LET i == IndexOfName(comps, "PS")
    IN  IF i # 0 /\ comps[i].kind = "PhaseShifter"
        THEN [comps EXCEPT ![i] = set_phase(comps[i], phase)]
        ELSE comps

IsInterferometer ==
    \E phase \in PhaseShifts :
        Circuit(components, connections, input_modes, output_modes)
            = QuantumPhotonicInterferometer(phase)

InitBuilt ==
    /\ \E c \in BuiltCircuits :
        /\ components = c.components
        /\ connections = c.connections
        /\ input_modes = c.input_modes
        /\ output_modes = c.output_modes
    /\ pc = "idle"
    /\ sim_inputs = EmptyDict
    /\ mode_states = EmptyDict
    /\ processed_components = {}
    /\ idx = 0
    /\ passes = 0
    /\ progress = FALSE
    /\ final_outputs = EmptyDict
    /\ memo = <<>>
    /\ log = <<>>
    /\ NoBench
    /\ NoOthers

SetPhaseShift ==
    /\ NoCall
    /\ IsInterferometer
    /\ \E phase \in PhaseShifts : components' = set_phase_shift(components, phase)
    /\ UNCHANGED <<connections, input_modes, output_modes>>
    /\ Forget

NextBuilt ==
    \/ SetPhaseShift
    \/ SimCall
    \/ SimPass
    \/ SimVisit
    \/ SimReturn

SpecBuilt == InitBuilt /\ [][NextBuilt]_vars

FairBuilt == SpecBuilt /\ Running

-----------------------------------------------------------------------------
(* A PhaseShifter held by two threads: its owner sets the phase and applies  *)
(* the shifter, the other thread reads its fields                            *)

\* a mode whose amplitude is neither real nor imaginary: (1 + i)/2
Mode3 == PhotonicMode("m3", 2, "V", Amp(1, 1, 0, 0, 1), Phase(0, Amp(1, 1, 0, 0, 1)))

\* modes a caller hands to a component
BenchModes == {Mode0, Mode1, Mode2, Mode3, Dark2}

InitShifter ==
    /\ Fresh
    /\ \E phase_shift \in PhaseShifts : shifter = PhaseShifter("PS", phase_shift)
    /\ set_call = None
    /\ seen = None
    /\ splitter = None
    /\ applied = None
    /\ NoOthers

\* the owner is not inside set_phase
SetPhaseDone == IF set_call = None THEN TRUE ELSE set_call.at = "done"

\* set_phase(phase) is called and runs line 142
SetPhase142 ==
    /\ SetPhaseDone
    /\ \E phase \in PhaseShifts :
        /\ shifter' = StorePhaseShift(shifter, phase)
        /\ set_call' = [phase |-> phase, at |-> "line 143"]
    /\ applied' = None
    /\ UNCHANGED <<seen, splitter, circuit, simulation, others>>

\* set_phase runs line 143 and returns
SetPhase143 ==
    /\ ~SetPhaseDone
    /\ shifter' = StoreTransformationMatrix(shifter, set_call.phase)
    /\ set_call' = [set_call EXCEPT !.at = "done"]
    /\ UNCHANGED <<seen, splitter, applied, circuit, simulation, others>>

\* the other thread reads phase_shift and get_transfer_matrix() at one instant
ReadShifter ==
    /\ seen' = [phase_shift |-> shifter.phase_shift,
                transformation_matrix |-> shifter.transformation_matrix]
    /\ UNCHANGED <<shifter, set_call, splitter, applied, circuit, simulation, others>>

\* the owner calls shifter.apply_transformation({"input": mode})
ApplyShifter ==
    /\ SetPhaseDone
    /\ \E mode \in BenchModes :
        LET inputs == ("input" :> mode)
        IN  applied' = [component |-> shifter, inputs |-> inputs,
                        outputs |-> PhaseShifterApply(shifter, inputs), back |-> None]
    /\ UNCHANGED <<shifter, set_call, seen, splitter, circuit, simulation, others>>

\* the owner hands the output to a PhaseShifter built with the opposite shift
ApplyInverse ==
    /\ applied # None
    /\ applied.component.kind = "PhaseShifter"
    /\ applied.back = None
    /\ applied' = [applied EXCEPT !.back =
            PhaseShifterApply(PhaseShifter("inverse", 0 - applied.component.phase_shift),
                              ("input" :> applied.outputs["output"]))]
    /\ UNCHANGED <<shifter, set_call, seen, splitter, circuit, simulation, others>>

NextShifter ==
    \/ SetPhase142
    \/ SetPhase143
    \/ ReadShifter
    \/ ApplyShifter
    \/ ApplyInverse

SpecShifter == InitShifter /\ [][NextShifter]_vars

-----------------------------------------------------------------------------
(* BeamSplitter objects a caller constructs, adds to a circuit and applies *)

\* reflectivity arguments a caller passes, in halves: -1.0, 0.0, 0.5, 1.0, 2.0
Reflectivities == {-2, 0, 1, 2, 4}

\* BeamSplitter("BS", reflectivity, phase_difference) is called
NewBeamSplitter ==
    /\ \E reflectivity \in Reflectivities, phase_difference \in PhaseShifts :
        splitter' = [reflectivity |-> reflectivity, phase_difference |-> phase_difference,
                     result |-> BeamSplitter("BS", reflectivity, phase_difference)]
    /\ applied' = None
    /\ UNCHANGED <<shifter, set_call, seen, circuit, simulation, others>>

\* the constructor call returned an object
Constructed == IF splitter = None THEN FALSE ELSE splitter.result # ValueError

\* add_component(bs) with the object the constructor returned
AddSplitter ==
    /\ Constructed
    /\ components' = add_component(components, splitter.result)
    /\ UNCHANGED <<connections, input_modes, output_modes, simulation, bench, others>>

\* bs.apply_transformation({"input1": m1, "input2": m2}) on that object
ApplySplitter ==
    /\ Constructed
    /\ \E m1 \in BenchModes, m2 \in BenchModes :
        LET inputs == ("input1" :> m1 @@ "input2" :> m2)
        IN  applied' = [component |-> splitter.result, inputs |-> inputs,
                        outputs |-> BeamSplitterApply(splitter.result, inputs), back |-> None]
    /\ UNCHANGED <<shifter, set_call, seen, splitter, circuit, simulation, others>>

NextSplitter ==
    \/ NewBeamSplitter
    \/ AddSplitter
    \/ ApplySplitter

SpecSplitter == Init /\ [][NextSplitter]_vars

-----------------------------------------------------------------------------
(* Several threads call simulate on one circuit that nobody changes *)

MaxThreads == 2

Threads == 1..MaxThreads

\* a phase shifter feeding the first port of a beam splitter
ChainCircuit ==
    Circuit(add_component(add_component(<<>>, PhaseShifter("PS", 1)), BeamSplitter("BS1", 1, 0)),
            connect(<<>>, "PS", "output", "BS1", "input1"),
            <<"input", "input2">>, <<"output1", "output2">>)

SharedCircuits == {TestCircuit, ChainCircuit, RingCircuit, QuantumPhotonicInterferometer(1)}

\* a thread that has not called simulate yet
Waiting ==
    [pc |-> "idle", args |-> EmptyDict, frame |-> Frame(EmptyDict, {}, FALSE),
     idx |-> 0, result |-> None]

InitThreads ==
    /\ \E c \in SharedCircuits :
        /\ components = c.components
        /\ connections = c.connections
        /\ input_modes = c.input_modes
        /\ output_modes = c.output_modes
    /\ pc = "idle"
    /\ sim_inputs = EmptyDict
    /\ mode_states = EmptyDict
    /\ processed_components = {}
    /\ idx = 0
    /\ passes = 0
    /\ progress = FALSE
    /\ final_outputs = EmptyDict
    /\ memo = <<>>
    /\ log = <<>>
    /\ NoBench
    /\ threads = [t \in Threads |-> Waiting]
    /\ nv_centers = None
    /\ nv_call = None
    /\ objects = None

\* variant: every call works on the locals of the first thread's call
SharedFrame(ths, t) == ths[1].frame

\* lines 190-194: mode_states and processed_components are locals of the call
OwnFrame(ths, t) == ths[t].frame

\* thread t calls simulate: lines 189-194
ThreadCall(t) ==
    /\ threads[t].pc = "idle"
    /\ \E args \in SimInputs :
        threads' = [threads EXCEPT ![t] =
            [pc |-> "while", args |-> args, frame |-> Frame(InitialModeStates(args), {}, FALSE),
             idx |-> 0, result |-> None]]
    /\ UNCHANGED <<circuit, simulation, bench, nv_centers, nv_call, objects>>

\* line 196 in thread t, the test holds
ThreadPass(t) ==
    /\ threads[t].pc = "while"
    /\ Cardinality(OwnFrame(threads, t).processed_components) < Len(components)
    /\ threads' = [threads EXCEPT ![t].pc = "for", ![t].idx = 1, ![t].frame.progress = FALSE]
    /\ UNCHANGED <<circuit, simulation, bench, nv_centers, nv_call, objects>>

\* lines 197-232 in thread t for the component at its idx
ThreadVisit(t) ==
    /\ threads[t].pc = "for"
    /\ threads' = [threads EXCEPT
            ![t].frame = Visit(components, connections, input_modes, threads[t].args,
                               OwnFrame(threads, t), threads[t].idx),
            ![t].idx = threads[t].idx + 1,
            ![t].pc = IF threads[t].idx = Len(components) THEN "while" ELSE "for"]
    /\ UNCHANGED <<circuit, simulation, bench, nv_centers, nv_call, objects>>

\* line 196 in thread t, the test fails: lines 234-245
ThreadReturn(t) ==
    /\ threads[t].pc = "while"
    /\ ~(Cardinality(OwnFrame(threads, t).processed_components) < Len(components))
    /\ threads' = [threads EXCEPT
            ![t].pc = "returned",
            ![t].result = CollectOutputs(components, output_modes,
                                         OwnFrame(threads, t).mode_states)]
    /\ UNCHANGED <<circuit, simulation, bench, nv_centers, nv_call, objects>>

NextThreads ==
    \E t \in Threads :
        \/ ThreadCall(t)
        \/ ThreadPass(t)
        \/ ThreadVisit(t)
        \/ ThreadReturn(t)

SpecThreads == InitThreads /\ [][NextThreads]_vars

-----------------------------------------------------------------------------
(* NVCenterControl (src/luxbin/quantum/photonics/nv_center.py) *)
(* Powers are in mW, pulse phases in degrees, fluorescence in Hz.            *)
(* np.random.random() is a number u of hundredths in 0..99, the noise of     *)
(* np.random.normal a number g of standard deviations; datetime.now() is     *)
(* the one value "now".                                                      *)

\* NVState(...) as register_nv_center builds it
NVState(position, orientation) ==
    [position |-> position, orientation |-> orientation,
     charge_state |-> "neutral", spin_state |-> "ms=0",
     fluorescence |-> 0, temperature |-> 300, last_updated |-> "now"]

\* what a call of op returned (a call that raised ended with ValueError)
Returned(op, value) == op :> value

\* position of nv_id in self.nv_centers (a sequence of <<nv_id, NVState>>), 0 when absent
IndexOfNv(centers, nv_id) ==
    IF \E i \in 1..Len(centers) : centers[i][1] = nv_id
    THEN CHOOSE i \in 1..Len(centers) : centers[i][1] = nv_id
    ELSE 0

\* nv_id in self.nv_centers
IsRegistered(centers, nv_id) == IndexOfNv(centers, nv_id) # 0

\* self.nv_centers[nv_id], for a registered nv_id
Center(centers, nv_id) == centers[IndexOfNv(centers, nv_id)][2]

\* the object self.nv_centers[nv_id] after an assignment to one of its attributes
WithCenter(centers, nv_id, nv) == [centers EXCEPT ![IndexOfNv(centers, nv_id)] = <<nv_id, nv>>]

\* variant: an id that is registered keeps its NVState
register_nv_centerKeep(centers, nv_id, position, orientation) ==
    IF IsRegistered(centers, nv_id) THEN centers
    ELSE Append(centers, <<nv_id, NVState(position, orientation)>>)

\* NVCenterControl.register_nv_center: self.nv_centers[nv_id] = NVState(...)
register_nv_center(centers, nv_id, position, orientation) ==
    IF IsRegistered(centers, nv_id)
    THEN WithCenter(centers, nv_id, NVState(position, orientation))
    ELSE Append(centers, <<nv_id, NVState(position, orientation)>>)

\* self.optical_setup["background_counts"]
background_counts == 100

\* lines 96-97: np.random.random() < min(1.0, laser_power / 100.0)
Ionizes(laser_power, u) == u < (IF laser_power < 100 THEN laser_power ELSE 100)

\* NVCenterControl.optical_excitation: the dict after the call and how the call ended
optical_excitation(centers, nv_id, laser_power, wavelength, u, g) ==
    IF ~IsRegistered(centers, nv_id)
    THEN [centers |-> centers, result |-> ValueError]
    ELSE LET nv == Center(centers, nv_id)
             ionized == /\ wavelength = "green"
                        /\ nv.charge_state = "negative"
                        /\ Ionizes(laser_power, u)
             fluorescence ==
                 IF wavelength = "green"
                 THEN IF nv.charge_state = "negative" /\ ~ionized
                      THEN 10000 + g * 1000
                      ELSE background_counts
                 ELSE IF nv.charge_state = "negative"
                      THEN 5000 + g * 500
                      ELSE background_counts
             after == [nv EXCEPT !.charge_state = IF ionized THEN "neutral" ELSE @,
                                 !.fluorescence = fluorescence,
                                 !.last_updated = "now"]
         IN  [centers |-> WithCenter(centers, nv_id, after), result |-> Returned("optical_excitation", fluorescence)]

\* lines 133-144: the spin state after the pulse sequence
SpinAfter(spin_state, sequence, u) ==
    IF sequence.pulse_type # "microwave" THEN spin_state
    ELSE IF sequence.phase - 180 < 10 /\ 180 - sequence.phase < 10
         THEN IF spin_state = "ms=0" THEN (IF u < 50 THEN "ms=-1" ELSE "ms=+1")
              ELSE IF spin_state = "ms=+1" THEN "ms=0"
              ELSE IF spin_state = "ms=-1" THEN "ms=0"
              ELSE spin_state
         ELSE IF sequence.phase - 90 < 10 /\ 90 - sequence.phase < 10
              THEN "superposition"
              ELSE spin_state

\* NVCenterControl.microwave_manipulation
microwave_manipulation(centers, nv_id, sequence, u) ==
    IF ~IsRegistered(centers, nv_id)
    THEN [centers |-> centers, result |-> ValueError]
    ELSE LET nv == Center(centers, nv_id)
             after == [nv EXCEPT !.spin_state = SpinAfter(nv.spin_state, sequence, u),
                                 !.last_updated = "now"]
         IN  [centers |-> WithCenter(centers, nv_id, after),
              result |-> Returned("microwave_manipulation", after.spin_state)]

\* NVCenterControl.charge_state_initialization: a green and a red excitation,
\* then charge_state = "negative"
charge_state_initialization(centers, nv_id, u, g1, g2) ==
    IF ~IsRegistered(centers, nv_id)
    THEN [centers |-> centers, result |-> ValueError]
    ELSE LET green == optical_excitation(centers, nv_id, 50, "green", u, g1)
             red == optical_excitation(green.centers, nv_id, 10, "red", u, g2)
             nv == Center(red.centers, nv_id)
             after == [nv EXCEPT !.charge_state = "negative", !.last_updated = "now"]
         IN  [centers |-> WithCenter(red.centers, nv_id, after),
              result |-> Returned("charge_state_initialization", after.charge_state)]

\* variant of the guard of line 175: one registered id is enough
EitherRegistered(centers, nv1_id, nv2_id) ==
    IsRegistered(centers, nv1_id) \/ IsRegistered(centers, nv2_id)

\* line 175 negated: both ids are in self.nv_centers
BothRegistered(centers, nv1_id, nv2_id) ==
    IsRegistered(centers, nv1_id) /\ IsRegistered(centers, nv2_id)

\* lines 188-189: both spin states become "entangled"
Entangle(centers, nv1_id, nv2_id) ==
    LET one == WithCenter(centers, nv1_id,
                   [Center(centers, nv1_id) EXCEPT !.spin_state = "entangled"])
    IN  WithCenter(one, nv2_id, [Center(one, nv2_id) EXCEPT !.spin_state = "entangled"])

\* NVCenterControl.create_entanglement; rnd = <<u1, g1, u2, g2, u3>> are the
\* draws of the two initializations and of the success test
create_entanglement(centers, nv1_id, nv2_id, rnd) ==
    IF ~BothRegistered(centers, nv1_id, nv2_id)
    THEN [centers |-> centers, result |-> Returned("create_entanglement", FALSE)]
    ELSE LET first == charge_state_initialization(centers, nv1_id, rnd[1], rnd[2], rnd[2])
             second == charge_state_initialization(first.centers, nv2_id, rnd[3], rnd[4], rnd[4])
         IN  IF first.result = ValueError THEN first
             ELSE IF second.result = ValueError THEN second
             ELSE IF rnd[5] < 10
                  THEN [centers |-> Entangle(second.centers, nv1_id, nv2_id),
                        result |-> Returned("create_entanglement", TRUE)]
                  ELSE [centers |-> second.centers, result |-> Returned("create_entanglement", FALSE)]

\* NVCenterControl.get_nv_state: self.nv_centers.get(nv_id)
get_nv_state(centers, nv_id) ==
    IF IsRegistered(centers, nv_id) THEN Center(centers, nv_id) ELSE None

\* NVCenterControl.list_nv_centers: list(self.nv_centers.keys())
list_nv_centers(centers) == [i \in 1..Len(centers) |-> centers[i][1]]

NvIds == {"nv1", "nv2"}
Positions == {<<0, 0, 0>>}
Orientations == {<<0, 0, 0>>}
LaserPowers == {0, 50, 200}
Wavelengths == {"green", "red"}
Uniform == {0, 99}
Noise == {-1, 1}
PulseSequences ==
    [pulse_type : {"microwave", "green_laser"}, phase : {0, 90, 175, 180}]

\* NVCenterControl("..."): no center registered, no call made
InitNV ==
    /\ Fresh
    /\ NoBench
    /\ threads = None
    /\ objects = None
    /\ nv_centers = <<>>
    /\ nv_call = None

Called(op, ids, ended) ==
    /\ nv_centers' = ended.centers
    /\ nv_call' = [op |-> op, ids |-> ids, result |-> ended.result]
    /\ UNCHANGED <<circuit, simulation, bench, threads, objects>>

RegisterNvCenter ==
    \E nv_id \in NvIds, position \in Positions, orientation \in Orientations :
        Called("register_nv_center", <<nv_id>>,
               [centers |-> register_nv_center(nv_centers, nv_id, position, orientation),
                result |-> Returned("register_nv_center", None)])

OpticalExcitation ==
    \E nv_id \in NvIds, laser_power \in LaserPowers, wavelength \in Wavelengths,
       u \in Uniform, g \in Noise :
        Called("optical_excitation", <<nv_id>>,
               optical_excitation(nv_centers, nv_id, laser_power, wavelength, u, g))

MicrowaveManipulation ==
    \E nv_id \in NvIds, sequence \in PulseSequences, u \in Uniform :
        Called("microwave_manipulation", <<nv_id>>,
               microwave_manipulation(nv_centers, nv_id, sequence, u))

ChargeStateInitialization ==
    \E nv_id \in NvIds, u \in Uniform, g1 \in Noise, g2 \in Noise :
        Called("charge_state_initialization", <<nv_id>>,
               charge_state_initialization(nv_centers, nv_id, u, g1, g2))

CreateEntanglement ==
    \E nv1_id \in NvIds, nv2_id \in NvIds,
       rnd \in Uniform \X Noise \X Uniform \X Noise \X Uniform :
        Called("create_entanglement", <<nv1_id, nv2_id>>,
               create_entanglement(nv_centers, nv1_id, nv2_id, rnd))

NextNV ==
    \/ RegisterNvCenter
    \/ OpticalExcitation
    \/ MicrowaveManipulation
    \/ ChargeStateInitialization
    \/ CreateEntanglement

SpecNV == InitNV /\ [][NextNV]_vars

-----------------------------------------------------------------------------
(* PhotonicMode objects by identity *)
(* cells is the sequence of the PhotonicMode objects that exist, a reference *)
(* is a position in it; mappings hold references.                            *)

\* modes the caller constructs, objects that exist when the caller makes a call
MaxModes == 2

\* the modes a mapping of references refers to
Deref(cells, refs) == [k \in DOMAIN refs |-> cells[refs[k]]]

\* variant: the output is written into the object received for the first
\* input port, when there is one
EmitInPlace(cells, given, ports, mode) ==
    IF ports[1] \in DOMAIN given
    THEN [cells |-> [cells EXCEPT ![given[ports[1]]] = mode], ref |-> given[ports[1]]]
    ELSE [cells |-> Append(cells, mode), ref |-> Len(cells) + 1]

\* lines 89-95 and 130-136: PhotonicMode(...) makes a new object; given and
\* ports (the references received, the component's input ports) play no part
Emit(cells, given, ports, mode) ==
    [cells |-> Append(cells, mode), ref |-> Len(cells) + 1]

\* the output modes made one after the other, in the order of output_ports
RECURSIVE EmitAll(_, _, _, _, _, _)
EmitAll(component, cells, given, outputs, i, refs) ==
    IF i > Len(component.output_ports) THEN [cells |-> cells, outputs |-> refs]
    ELSE LET port == component.output_ports[i]
             made == Emit(cells, given, component.input_ports, outputs[port])
         IN  EmitAll(component, made.cells, given, outputs, i + 1,
                     Put(refs, port, made.ref))

\* component.apply_transformation(input_modes) on objects: the fields are
\* read through the references given, the return value maps each output port
\* to the reference of its mode.  The default modes built for dict.get are
\* dropped when the call returns and are left out of cells.
ApplyByReference(component, cells, given) ==
    EmitAll(component, cells, given,
            apply_transformation(component, Deref(cells, given)), 1, EmptyDict)

\* the mappings from some of the names to references of existing objects
RefDicts(names, cells) == UNION {[S -> 1..Len(cells)] : S \in SUBSET PortSet(names)}

NoApplication == [component |-> "", given |-> EmptyDict, returned |-> EmptyDict]

\* no object, no call
NoObjects ==
    [cells |-> <<>>, at |-> "idle", circuit |-> Circuit(<<>>, <<>>, <<>>, <<>>),
     args |-> EmptyDict, mode_states |-> EmptyDict, processed_components |-> {},
     idx |-> 0, final_outputs |-> EmptyDict, last |-> NoApplication]

InitObjects ==
    /\ Fresh
    /\ NoBench
    /\ threads = None
    /\ nv_centers = None
    /\ nv_call = None
    /\ objects = NoObjects

ObjectsOnly == UNCHANGED <<circuit, simulation, bench, threads, nv_centers, nv_call>>

\* the caller constructs a mode
NewMode ==
    /\ objects.at = "idle"
    /\ Len(objects.cells) < MaxModes
    /\ \E mode \in BenchModes :
        objects' = [objects EXCEPT !.cells = Append(@, mode)]
    /\ ObjectsOnly

\* the caller calls apply_transformation on a component
ApplyDirectly ==
    /\ objects.at = "idle"
    /\ \E component \in Catalogue :
        /\ Len(objects.cells) <= MaxModes
        /\ \E given \in RefDicts(component.input_ports, objects.cells) :
            LET ended == ApplyByReference(component, objects.cells, given)
            IN  objects' = [objects EXCEPT
                    !.cells = ended.cells,
                    !.last = [component |-> component.name, given |-> given,
                              returned |-> ended.outputs]]
    /\ ObjectsOnly

\* lines 190-194: the caller calls simulate with a mapping of its modes
SimulateCall ==
    /\ objects.at = "idle"
    /\ Len(objects.cells) <= MaxModes
    /\ \E c \in SharedCircuits : \E args \in RefDicts(c.input_modes, objects.cells) :
        objects' = [objects EXCEPT
            !.at = "for", !.circuit = c, !.args = args,
            !.mode_states = InitialModeStates(args),
            !.processed_components = {}, !.idx = 1,
            !.final_outputs = EmptyDict, !.last = NoApplication]
    /\ ObjectsOnly

\* lines 197-232: the body of the for loop for one component
SimulateVisit ==
    /\ objects.at = "for"
    /\ objects.idx <= Len(objects.circuit.components)
    /\ LET c == objects.circuit
           component == c.components[objects.idx]
           fr == Frame(objects.mode_states, objects.processed_components, FALSE)
       IN  IF Applies(c.components, c.connections, c.input_modes, objects.args, fr, objects.idx)
           THEN LET given == CompInputs(c.connections, c.input_modes, objects.args,
                                       objects.mode_states, component)
                    ended == ApplyByReference(component, objects.cells, given)
                IN  objects' = [objects EXCEPT
                        !.cells = ended.cells,
                        !.mode_states = StoreOutputs(@, component.name, ended.outputs),
                        !.processed_components = @ \cup {component.name},
                        !.idx = @ + 1,
                        !.last = [component |-> component.name, given |-> given,
                                  returned |-> ended.outputs]]
           ELSE objects' = [objects EXCEPT !.idx = @ + 1]
    /\ ObjectsOnly

\* line 196 after a pass: another pass, or lines 235-245
SimulatePass ==
    /\ objects.at = "for"
    /\ objects.idx > Len(objects.circuit.components)
    /\ IF Cardinality(objects.processed_components) < Len(objects.circuit.components)
       THEN objects' = [objects EXCEPT !.idx = 1]
       ELSE objects' = [objects EXCEPT
               !.at = "returned",
               !.final_outputs = CollectOutputs(objects.circuit.components,
                                                objects.circuit.output_modes,
                                                objects.mode_states)]
    /\ ObjectsOnly

\* the caller drops every reference it holds
DropObjects ==
    /\ objects.at # "idle" \/ objects.cells # <<>>
    /\ objects' = NoObjects
    /\ ObjectsOnly

NextObjects ==
    \/ NewMode
    \/ ApplyDirectly
    \/ SimulateCall
    \/ SimulateVisit
    \/ SimulatePass
    \/ DropObjects

SpecObjects == InitObjects /\ [][NextObjects]_vars

-----------------------------------------------------------------------------
(* Properties *)

\* simulate holds no raise statement: no step of the model sets pc to "raised"
Raised == pc = "raised"

\* a pass of the for loop has just ended and it processed no component
PassWithoutProgress == pc = "while" /\ passes > 0 /\ ~progress

\* C2: whenever a full pass over the unprocessed components processes none of
\* them, simulate aborts the call with a hard failure; it does not scan again.
C2_NoProgressAborts == [][PassWithoutProgress => Raised']_vars

\* the circuit of test_photonic_circuit_basic: one beam splitter, nothing wired
SingleBeamSplitter ==
    /\ Len(components) = 1
    /\ components[1].kind = "BeamSplitter"
    /\ connections = <<>>
    /\ input_modes = <<"input1", "input2">>
    /\ output_modes = <<"output1", "output2">>

BothSupplied == {"input1", "input2"} \subseteq DOMAIN sim_inputs

\* C5: a circuit of a single beam splitter with declared inputs input1, input2
\* and declared outputs output1, output2, simulated with modes for both inputs,
\* is done after one pass and returns exactly output1 and output2, each the mode
\* the beam splitter's transformation makes of the two supplied modes (for the
\* 50/50 splitter on amplitudes 1 and 0: sqrt(2)/2 on both outputs).
C5_SingleBeamSplitter ==
    (SingleBeamSplitter /\ BothSupplied) =>
        LET bs == components[1]
            expected == BeamSplitterApply(bs, [port \in {"input1", "input2"} |-> sim_inputs[port]])
        IN  /\ passes <= 1
            /\ (pc = "while" /\ passes = 1) => processed_components = {bs.name}
            /\ pc = "returned" =>
                 /\ passes = 1
                 /\ DOMAIN final_outputs = {"output1", "output2"}
                 /\ \A port \in {"output1", "output2"} : final_outputs[port] = expected[port]
                 /\ (bs = BeamSplitter("BS1", 1, 0) /\ sim_inputs["input1"] = Mode1
                        /\ sim_inputs["input2"] = Dark2) =>
                      /\ final_outputs["output1"].amplitude = Amp(0, 0, 1, 0, 1)
                      /\ final_outputs["output2"].amplitude = Amp(0, 0, 1, 0, 1)

C5_Witness ==
    /\ SingleBeamSplitter /\ BothSupplied /\ pc = "returned"
    /\ sim_inputs["input2"] = Mode2
    /\ final_outputs["output1"].amplitude = Amp(0, 0, 1, 1, 1)

\* C6: on a fixed circuit, two simulate calls with the same input mapping that
\* return, return the same output mapping, whatever calls came in between.
C6_Deterministic ==
    (pc = "returned" /\ memo # <<>> /\ memo[1][1] = sim_inputs) => final_outputs = memo[1][2]

\* a call returned, another call with other inputs ran, and the first is now repeated
C6_Witness ==
    /\ pc = "returned" /\ memo # <<>> /\ memo[1][1] = sim_inputs /\ memo[1][3]
    /\ final_outputs # EmptyDict
    /\ Len(components) = 2 /\ connections # <<>>

\* C7: simulate leaves the circuit as it was (components with their parameters
\* and matrices, connections, declared inputs and outputs) and does not modify
\* the caller's input mapping.
C7_SimulateReadsOnly ==
    [][pc' # "idle" => /\ circuit' = circuit
                        /\ ~NoCall => sim_inputs' = sim_inputs]_vars

C7_Witness ==
    /\ pc = "returned" /\ Len(components) = 2 /\ connections # <<>>
    /\ DOMAIN mode_states # DOMAIN sim_inputs

ProvidedNames == {n \in PortSet(output_modes) : Providers(components, mode_states, n) # {}}

\* C9 as claimed: of several components with an output port named like a
\* declared output, the first-registered one gives the returned mode.
C9_FirstRegistered ==
    pc = "returned" =>
        \A n \in ProvidedNames :
            final_outputs[n] =
                mode_states[Key(components[ChosenFirst(Providers(components, mode_states, n))].name, n)]

\* C9 as amended: the one that comes last in the component map gives the returned mode.
C9_LastRegistered ==
    pc = "returned" =>
        /\ DOMAIN final_outputs = ProvidedNames
        /\ \A n \in ProvidedNames :
              \A i \in Providers(components, mode_states, n) :
                  (\A j \in Providers(components, mode_states, n) : j <= i) =>
                      final_outputs[n] = mode_states[Key(components[i].name, n)]

C9_Witness ==
    /\ pc = "returned"
    /\ \E n \in ProvidedNames :
          /\ Cardinality(Providers(components, mode_states, n)) >= 2
          /\ \E i, j \in Providers(components, mode_states, n) :
                mode_states[Key(components[i].name, n)] # mode_states[Key(components[j].name, n)]

\* C10: every wiring target names a registered component and an input port it declares.
C10_TargetsDeclared ==
    \A i \in 1..Len(connections) :
        \E j \in 1..Len(components) :
            \E port \in PortSet(components[j].input_ports) :
                connections[i][2] = Key(components[j].name, port)

\* the output keys and input keys of a registered component
OutputKeys(component) == {Key(component.name, port) : port \in PortSet(component.output_ports)}
InputKeys(component) == {Key(component.name, port) : port \in PortSet(component.input_ports)}

\* the wiring graph on the registered components
Edge(i, j) ==
    \E k \in 1..Len(connections) :
        /\ connections[k][1] \in OutputKeys(components[i])
        /\ connections[k][2] \in InputKeys(components[j])

RECURSIVE Reaches(_, _, _)
Reaches(i, j, n) ==
    /\ n > 0
    /\ \/ Edge(i, j)
       \/ \E k \in 1..Len(components) : Edge(i, k) /\ Reaches(k, j, n - 1)

Acyclic == \A i \in 1..Len(components) : ~Reaches(i, i, Len(components))

Wired(input_key) == \E k \in 1..Len(connections) : connections[k][2] = input_key

WiredFromRegistered(input_key) ==
    \E k \in 1..Len(connections) :
        /\ connections[k][2] = input_key
        /\ \E j \in 1..Len(components) : connections[k][1] \in OutputKeys(components[j])

\* every input port is the target of a connection from an output port of a
\* registered component, or unwired and a declared circuit input the caller supplied
WellWired ==
    \A i \in 1..Len(components) :
        \A port \in PortSet(components[i].input_ports) :
            \/ WiredFromRegistered(Key(components[i].name, port))
            \/ /\ ~Wired(Key(components[i].name, port))
               /\ FromCircuitInput(input_modes, sim_inputs, port)

\* C3: on an acyclic circuit whose input ports are all wired from a registered
\* component's output port or unwired, declared and supplied, every pass of the
\* while loop processes a component and there are at most as many passes as
\* registered components.
C3_BoundedPasses ==
    (pc # "idle" /\ Acyclic /\ WellWired) =>
        /\ passes <= Len(components)
        /\ ~PassWithoutProgress

Reordered(f) == [i \in 1..Len(components) |-> components[f[i]]]

\* no declared output name is an output port of two registered components
\* (the tie that section 4.4 of the specification leaves to iteration order)
NoOutputTie ==
    \A n \in PortSet(output_modes) :
        \A i, j \in 1..Len(components) :
            (n \in PortSet(components[i].output_ports) /\ n \in PortSet(components[j].output_ports))
                => i = j

\* C8: the result of simulate does not depend on the order in which the
\* components were added: with the same components, connections, declared
\* inputs and outputs and the same input mapping, every order of add_component
\* calls gives the same returned mapping, or no return in any order.  Stated
\* here for the circuits without an output tie only, which the claim covers.
C8_OrderIrrelevant ==
    NoOutputTie =>
        /\ pc = "returned" =>
              \A f \in Permutations(1..Len(components)) :
                  simulate(Reordered(f), connections, input_modes, output_modes, sim_inputs)
                      = Returns(final_outputs)
        /\ PassWithoutProgress =>
              \A f \in Permutations(1..Len(components)) :
                  simulate(Reordered(f), connections, input_modes, output_modes, sim_inputs)
                      = Hangs

\* A's output is wired to B's input and B's output to A's input, and no
\* circuit-level input feeds either of the two input ports
TwoCycle ==
    \E i, j \in 1..Len(components) :
        \E qa \in PortSet(components[i].input_ports), qb \in PortSet(components[j].input_ports) :
            /\ i # j
            /\ \E k \in 1..Len(connections) :
                  /\ connections[k][1] \in OutputKeys(components[i])
                  /\ connections[k][2] = Key(components[j].name, qb)
            /\ \E k \in 1..Len(connections) :
                  /\ connections[k][1] \in OutputKeys(components[j])
                  /\ connections[k][2] = Key(components[i].name, qa)
            /\ ~FromCircuitInput(input_modes, sim_inputs, qa)
            /\ ~FromCircuitInput(input_modes, sim_inputs, qb)

\* C1: simulate on a circuit whose wiring contains a cycle ends by reporting an
\* UnresolvableGraphError: it does not loop for ever and returns no result.
C1_CycleReported == (pc = "while" /\ passes = 0 /\ TwoCycle) ~> Raised

\* C4: simulate on the interferometer as its constructor builds it, called with
\* a mode for the declared input "input", ends and returns modes for output1
\* and output2.
C4_InterferometerReturns ==
    (IsInterferometer /\ pc = "while" /\ passes = 0 /\ "input" \in DOMAIN sim_inputs)
        ~> (pc = "returned" /\ {"output1", "output2"} \subseteq DOMAIN final_outputs)

-----------------------------------------------------------------------------
(* The circuit's maps *)

\* the source keys of the wiring
SourceKeys(conns) == {conns[i][1] : i \in 1..Len(conns)}

\* the entries of the wiring under one source key
Entries(conns, from_key) == {i \in 1..Len(conns) : conns[i][1] = from_key}

\* the targets one source key is routed to
Routes(conns, from_key) == {conns[i][2] : i \in Entries(conns, from_key)}

\* C11: after any sequence of connect calls every source key has exactly one
\* entry in the wiring, hence one target; and a connect call routes its source
\* to its target, adds the source key only if it was not wired, and leaves the
\* route of every other source key as it was.
C11_OneRoutePerSource ==
    /\ [](\A from_key \in SourceKeys(connections) :
              Cardinality(Entries(connections, from_key)) = 1)
    /\ [][connections' # connections =>
              \E w \in Wires :
                  LET from_key == Key(w[1], w[2])
                  IN  /\ Routes(connections', from_key) = {Key(w[3], w[4])}
                      /\ SourceKeys(connections') = SourceKeys(connections) \cup {from_key}
                      /\ from_key \in SourceKeys(connections)
                             => Len(connections') = Len(connections)
                      /\ \A other \in SourceKeys(connections) \ {from_key} :
                             Routes(connections', other) = Routes(connections, other)]_vars

\* the wiring is full and PS:output, which the caller wires to BS1 and to BS2
\* in turn, has its one route
C11_Witness ==
    /\ Len(connections) = MaxConnections
    /\ Routes(connections, "PS:output") = {"BS2:input1"}
    /\ "BS1:input1" \notin {connections[i][2] : i \in 1..Len(connections)}

\* the names registered in the component map
Names(comps) == {comps[i].name : i \in 1..Len(comps)}

\* self.components[name]
Registered(comps, name) == comps[IndexOfName(comps, name)]

\* C12: add_component(c) always completes and the last write wins: the entry
\* under c.name is c, the number of names grows by one exactly when c.name was
\* not registered, every other name keeps its component, and the wiring and the
\* declared inputs and outputs are unchanged.
C12_LastWriteWins ==
    /\ [](NoCall =>
              \A c \in Catalogue :
                  (c.name \in Names(components) \/ Len(components) < MaxComponents) =>
                      ENABLED (/\ AddComponent
                               /\ c.name \in Names(components')
                               /\ Registered(components', c.name) = c))
    /\ [][components' # components =>
              \E c \in Catalogue :
                  /\ c.name \in Names(components')
                  /\ Registered(components', c.name) = c
                  /\ Len(components') = Cardinality(Names(components'))
                  /\ Len(components') =
                         Len(components) + (IF c.name \in Names(components) THEN 0 ELSE 1)
                  /\ \A name \in Names(components) \ {c.name} :
                         /\ name \in Names(components')
                         /\ Registered(components', name) = Registered(components, name)
                  /\ <<connections, input_modes, output_modes>>'
                         = <<connections, input_modes, output_modes>>]_vars

\* the map is full, and PS, which the caller adds with two different phase
\* shifts, is registered once, with its place of first registration
C12_Witness ==
    /\ Len(components) = MaxComponents
    /\ components[1] = PhaseShifter("PS", 3)
    /\ components[Len(components)].name = "BS1"

-----------------------------------------------------------------------------
(* PhaseShifter *)

\* the matrix np.array([[np.exp(1j * phase)]])
MatrixOf(phase) == << <<Exp1j(phase)>> >>

\* C13: after construction and after every completed set_phase call the cached
\* 1x1 transfer matrix of the PhaseShifter is e^{i*phase_shift} for the stored
\* phase_shift.
C13_MatrixFollowsPhase ==
    (shifter # None /\ SetPhaseDone) =>
        shifter.transformation_matrix = MatrixOf(shifter.phase_shift)

\* a set_phase call has completed on a shifter that was read with another phase before
C13_Witness ==
    /\ shifter # None
    /\ set_call # None
    /\ set_call.at = "done"
    /\ seen # None
    /\ seen.transformation_matrix = MatrixOf(seen.phase_shift)
    /\ seen.transformation_matrix # MatrixOf(shifter.phase_shift)

\* C14: a thread that reads phase_shift and the transfer matrix while another
\* thread runs set_phase never sees the new phase_shift with the old matrix, or
\* the old phase_shift with the new matrix.
C14_NoTornRead ==
    seen # None => seen.transformation_matrix = MatrixOf(seen.phase_shift)

\* the input and the output of the last apply_transformation call on the shifter
AppliedIn == applied.inputs["input"]
AppliedOut == applied.outputs["output"]

\* C15: an apply_transformation call that follows a set_phase(theta) call, with
\* no set_phase in between, multiplies the amplitude by e^{i*theta} and adds
\* theta to the phase, for the theta of that call.
C15_AppliesSetPhase ==
    (shifter # None /\ set_call # None /\ set_call.at = "done" /\ applied # None) =>
        /\ AppliedOut.amplitude = CMul(AppliedIn.amplitude, Exp1j(set_call.phase))
        /\ AppliedOut.phase = PhasePlus(AppliedIn.phase, set_call.phase)

\* the shifter was applied to a lit mode after a set_phase call that changed its phase
C15_Witness ==
    /\ shifter # None
    /\ set_call # None
    /\ set_call.at = "done"
    /\ applied # None
    /\ AppliedIn.amplitude # CZero
    /\ seen # None
    /\ MatrixOf(seen.phase_shift) # MatrixOf(set_call.phase)

\* the output of the shifter built with the opposite shift
AppliedBack == applied.back["output"]

\* C16: a PhaseShifter with shift theta followed by one with shift -theta gives
\* back the amplitude, the phase, the frequency and the polarization of the
\* input mode.
C16_InverseRestores ==
    (shifter # None /\ applied # None /\ applied.back # None) =>
        /\ AppliedBack.amplitude = AppliedIn.amplitude
        /\ AppliedBack.phase = AppliedIn.phase
        /\ AppliedBack.frequency = AppliedIn.frequency
        /\ AppliedBack.polarization = AppliedIn.polarization

\* a quarter-turn shifter and its inverse were applied to the mode of amplitude (1 + i)/2
C16_Witness ==
    /\ shifter # None
    /\ applied # None
    /\ applied.back # None
    /\ applied.component.phase_shift = 1
    /\ AppliedIn = Mode3
    /\ AppliedOut.amplitude # AppliedIn.amplitude

-----------------------------------------------------------------------------
(* BeamSplitter *)

\* |z|^2 = |x|^2 + 2|y|^2 + 2*sqrt(2)*Re(x*conj(y)) for z = (x + y*sqrt(2))/2^n
Abs2(z) ==
    Norm(Amp(z.re * z.re + z.im * z.im + 2 * (z.sre * z.sre + z.sim * z.sim), 0,
             2 * (z.re * z.sre + z.im * z.sim), 0, 2 * z.n))

\* the last apply_transformation call was made on a beam splitter built with
\* this reflectivity (in halves)
SplitterApplied(reflectivity) ==
    IF applied = None THEN FALSE
    ELSE /\ applied.component.kind = "BeamSplitter"
         /\ applied.component.reflectivity = reflectivity

Amp1 == applied.inputs["input1"].amplitude
Amp2 == applied.inputs["input2"].amplitude
Out1 == applied.outputs["output1"].amplitude
Out2 == applied.outputs["output2"].amplitude

\* C17: for a BeamSplitter with reflectivity 0.5 and phase difference 0 and any
\* two input amplitudes, |output1|^2 + |output2|^2 = |input1|^2 + |input2|^2.
C17_Unitary ==
    (SplitterApplied(1) /\ applied.component.phase_difference = 0) =>
        CAdd(Abs2(Out1), Abs2(Out2)) = CAdd(Abs2(Amp1), Abs2(Amp2))

\* the 50/50 splitter was applied to two lit modes, one of amplitude (1 + i)/2
C17_Witness ==
    /\ SplitterApplied(1)
    /\ applied.component.phase_difference = 0
    /\ Amp1 = Mode3.amplitude
    /\ Amp2 = Mode2.amplitude
    /\ CAdd(Abs2(Amp1), Abs2(Amp2)) = Amp(3, 0, 0, 0, 1)

\* C18: for a BeamSplitter with reflectivity 0 and phase difference 0 the
\* outputs are the inputs swapped: output1 has input2's amplitude and output2
\* has input1's amplitude.
C18_SwapAtZero ==
    (SplitterApplied(0) /\ applied.component.phase_difference = 0) =>
        /\ Out1 = Amp2
        /\ Out2 = Amp1

\* the fully transmitting splitter was applied to two different lit modes
C18_Witness ==
    /\ SplitterApplied(0)
    /\ applied.component.phase_difference = 0
    /\ Amp1 = Mode1.amplitude
    /\ Amp2 = Mode2.amplitude

\* C19, as stated: for a BeamSplitter with reflectivity 1, output1 has input1's
\* amplitude and output2 has the negated amplitude of input1.
C19_ReflectsInput1 ==
    SplitterApplied(2) =>
        /\ Out1 = Amp1
        /\ Out2 = CNeg(Amp1)

\* C19, amended: for a BeamSplitter with reflectivity 1, output1 has input1's
\* amplitude and output2 has the negated amplitude of input2; the inputs do not mix.
C19_FullReflection ==
    SplitterApplied(2) =>
        /\ Out1 = Amp1
        /\ Out2 = CNeg(Amp2)

\* the fully reflecting splitter was applied to a lit input1 and a differently lit input2
C19_Witness ==
    /\ SplitterApplied(2)
    /\ Amp1 = Mode3.amplitude
    /\ Amp2 = Mode0.amplitude
    /\ Out2 = COne

\* the reflectivity lies in [0, 1] (0..2 halves)
InDomain(reflectivity) == 0 <= reflectivity /\ reflectivity <= 2

\* C20: BeamSplitter(...) with a reflectivity below 0 or above 1 raises at
\* construction, so no BeamSplitter with such a reflectivity is ever held,
\* registered in a circuit or applied.
C20_OutOfDomainRejected ==
    /\ splitter # None =>
          /\ ~InDomain(splitter.reflectivity) => splitter.result = ValueError
          /\ Constructed => InDomain(splitter.result.reflectivity)
    /\ \A i \in 1..Len(components) :
          components[i].kind = "BeamSplitter" => InDomain(components[i].reflectivity)
    /\ \A reflectivity \in Reflectivities :
          SplitterApplied(reflectivity) => InDomain(reflectivity)

\* a constructor call with reflectivity 2.0 raised, after an earlier splitter was registered
C20_Witness ==
    /\ splitter # None
    /\ splitter.reflectivity > 2
    /\ splitter.result = ValueError
    /\ Len(components) = 1

-----------------------------------------------------------------------------
(* Concurrent simulate calls *)

\* what the call of thread t gives when it runs with no other call
Alone(t) ==
    simulate(components, connections, input_modes, output_modes, threads[t].args)

\* thread t has ended a pass of the for loop that processed nothing
ThreadStuck(t) ==
    /\ threads[t].pc = "while"
    /\ threads[t].idx > 0
    /\ ~threads[t].frame.progress

\* C21: simulate calls that run concurrently on one circuit, while no
\* component is changed, do not interfere: under every interleaving each call
\* returns what it returns when run alone, and does not return when it would
\* not return alone.
C21_NoInterference ==
    threads # None =>
        \A t \in Threads :
            /\ threads[t].pc = "returned" => Alone(t) = Returns(threads[t].result)
            /\ ThreadStuck(t) => Alone(t) = Hangs

\* two calls with different arguments are both inside the for loop of the
\* chain circuit, the first one past its first component
C21_Witness ==
    /\ threads # None
    /\ Len(components) = 2
    /\ connections # <<>>
    /\ threads[1].pc = "for"
    /\ threads[1].idx = 2
    /\ threads[1].frame.progress
    /\ threads[2].pc = "for"
    /\ threads[2].args # threads[1].args
    /\ DOMAIN threads[2].args # {}

-----------------------------------------------------------------------------
(* One simulate call, by the apply_transformation calls it makes *)

\* the names of the components the call has applied so far
AppliedNames == {log[i].name : i \in 1..Len(log)}

\* C23: within one simulate call every registered component is applied at most
\* once, and when the call returns every registered component has been applied
\* exactly once.
C23_AppliedOnce ==
    pc # "idle" =>
        /\ \A i, j \in 1..Len(log) : log[i].name = log[j].name => i = j
        /\ AppliedNames \subseteq Names(components)
        /\ pc = "returned" => AppliedNames = Names(components)

\* a call on two components returned after two passes
C23_Witness ==
    /\ pc = "returned"
    /\ Len(components) = 2
    /\ Len(log) = 2
    /\ passes = 2

\* the connection from_key -> to_key joins output port p of the registered
\* component a to input port q of the registered component b
Joins(conn, a, p, b, q) ==
    /\ p \in PortSet(a.output_ports)
    /\ q \in PortSet(b.input_ports)
    /\ conn = <<Key(a.name, p), Key(b.name, q)>>

\* C24: for every connection from output port p of a registered component A
\* to input port q of a registered component B, in any simulate call B is
\* applied only after A, and the mode B takes at q is the one A returned for p
\* in that call.
C24_DependencyOrder ==
    \A k \in 1..Len(connections), ia, ib \in 1..Len(components) :
        \A p \in PortSet(components[ia].output_ports), q \in PortSet(components[ib].input_ports) :
            Joins(connections[k], components[ia], p, components[ib], q) =>
                \A j \in 1..Len(log) :
                    log[j].name = components[ib].name =>
                        \E i \in 1..(j - 1) :
                            /\ log[i].name = components[ia].name
                            /\ log[j].comp_inputs[q] = log[i].outputs[p]

\* the keys the call has stored by applying components
StoredKeys ==
    UNION {{Key(log[i].name, port) : port \in DOMAIN log[i].outputs} : i \in 1..Len(log)}

\* C25: the working map of a simulate call starts empty and holds only
\* "component:port" entries stored by applying that component in this call;
\* no key of the caller's mapping is in it.
C25_WorkingMapOwnEntries ==
    ~NoCall =>
        /\ DOMAIN mode_states \subseteq StoredKeys
        /\ DOMAIN mode_states \cap DOMAIN sim_inputs = {}

\* C26: when simulate returns, the keys of the result are declared output
\* names; a declared output name that is an output port of a registered
\* component is in the result, bound to a mode an application of this call
\* returned for that port; a declared output name that is no component's
\* output port is left out.
C26_DeclaredOutputs ==
    pc = "returned" =>
        /\ DOMAIN final_outputs \subseteq PortSet(output_modes)
        /\ \A output_name \in PortSet(output_modes) :
              IF \E i \in 1..Len(components) :
                     output_name \in PortSet(components[i].output_ports)
              THEN /\ output_name \in DOMAIN final_outputs
                   /\ \E j \in 1..Len(log) :
                          /\ output_name \in DOMAIN log[j].outputs
                          /\ final_outputs[output_name] = log[j].outputs[output_name]
              ELSE output_name \notin DOMAIN final_outputs

\* a call returned with one of the two declared output names provided
C26_Witness ==
    /\ pc = "returned"
    /\ output_modes = <<"output", "output3">>
    /\ DOMAIN final_outputs = {"output"}
    /\ Len(components) = 2

-----------------------------------------------------------------------------
(* The Bell state preparation circuit *)

IsBellCircuit ==
    Circuit(components, connections, input_modes, output_modes)
        = create_bell_state_preparation_circuit

\* C30: simulate on the circuit create_bell_state_preparation_circuit returns,
\* called with a mode for the declared input "photon_input", ends and returns
\* a mapping.
C30_BellCircuitReturns ==
    (IsBellCircuit /\ pc = "while" /\ passes = 0 /\ "photon_input" \in DOMAIN sim_inputs)
        ~> (pc = "returned")


-----------------------------------------------------------------------------
(* NVCenterControl *)

\* how often nv_id is listed
TimesListed(centers, nv_id) ==
    Cardinality({i \in 1..Len(centers) : list_nv_centers(centers)[i] = nv_id})

\* the call that was made last, its first argument
LastOp == IF nv_call = None THEN "none" ELSE nv_call.op
LastId == nv_call.ids[1]

\* the state a registration leaves: NVState's fields as lines 63-71 set them
IsInitialState(nv) ==
    /\ nv # None
    /\ nv.charge_state = "neutral"
    /\ nv.spin_state = "ms=0"
    /\ nv.fluorescence = 0

\* the call that leads to the next state is register_nv_center
Registers == IF nv_call' = None THEN FALSE ELSE nv_call'.op = "register_nv_center"

\* C22: after register_nv_center(id, ...) the id is listed exactly once and
\* get_nv_state(id) reports charge_state "neutral" and spin_state "ms=0"; a new
\* id adds exactly one entry, so k distinct ids on a fresh controller are k
\* entries, and an id registered before is reset to the initial state without
\* adding an entry; no other center changes.
C22_RegisteredOnceInitial ==
    [][Registers =>
         LET nv_id == nv_call'.ids[1] IN
         /\ TimesListed(nv_centers', nv_id) = 1
         /\ IsInitialState(get_nv_state(nv_centers', nv_id))
         /\ Len(nv_centers') = Len(nv_centers) + (IF IsRegistered(nv_centers, nv_id) THEN 0 ELSE 1)
         /\ \A other \in NvIds \ {nv_id} :
                get_nv_state(nv_centers', other) = get_nv_state(nv_centers, other)]_vars

\* an id registered before another one has been registered again: it is still
\* the first of two entries and in the initial state
C22_Witness ==
    /\ LastOp = "register_nv_center"
    /\ Len(nv_centers) = 2
    /\ list_nv_centers(nv_centers)[1] = LastId
    /\ IsInitialState(get_nv_state(nv_centers, LastId))
    /\ ~IsInitialState(get_nv_state(nv_centers, list_nv_centers(nv_centers)[2]))

\* some argument of the call that leads to the next state was not registered
UnregisteredCall ==
    /\ nv_call' # None
    /\ nv_call'.op # "register_nv_center"
    /\ \E i \in DOMAIN nv_call'.ids : ~IsRegistered(nv_centers, nv_call'.ids[i])

\* C28: optical_excitation, microwave_manipulation and
\* charge_state_initialization with an unregistered nv_id raise ValueError,
\* create_entanglement with an unregistered id returns False, and in each of
\* these cases every registered center keeps its state.
C28_UnregisteredRejected ==
    [][UnregisteredCall =>
         /\ nv_centers' = nv_centers
         /\ IF nv_call'.op = "create_entanglement"
            THEN nv_call'.result = Returned("create_entanglement", FALSE)
            ELSE nv_call'.result = ValueError]_vars

\* create_entanglement was called with one registered and one unregistered id
C28_Witness ==
    /\ LastOp = "create_entanglement"
    /\ Len(nv_centers) = 1
    /\ IsRegistered(nv_centers, nv_call.ids[1])
    /\ ~IsRegistered(nv_centers, nv_call.ids[2])
    /\ nv_call.result = Returned("create_entanglement", FALSE)

\* C29: after any sequence of calls the spin_state of every registered center
\* is one of "ms=0", "ms=+1", "ms=-1".
C29_DocumentedSpinStates ==
    \A i \in 1..Len(nv_centers) :
        nv_centers[i][2].spin_state \in {"ms=0", "ms=+1", "ms=-1"}


-----------------------------------------------------------------------------
(* PhotonicMode objects *)

\* the step is an apply_transformation call, made by the caller or by simulate
Applying == objects'.last # objects.last /\ objects'.last # NoApplication

\* C27: mode records are never mutated in place: an apply_transformation call
\* of either component class, and every step of simulate, leaves every field
\* of every existing mode, those it receives among them, unchanged, and every
\* mode a component returns, and simulate stores, is a newly created object.
C27_NeverMutatedInPlace ==
    [][objects'.at # "idle" \/ Applying =>
         /\ \A r \in 1..Len(objects.cells) :
                /\ r <= Len(objects'.cells)
                /\ objects'.cells[r] = objects.cells[r]
         /\ Applying =>
                /\ \A port \in DOMAIN objects'.last.returned :
                       objects'.last.returned[port] > Len(objects.cells)
                /\ objects.at = "for" =>
                       \A port \in DOMAIN objects'.last.returned :
                           objects'.mode_states[Key(objects'.last.component, port)]
                               = objects'.last.returned[port]
         /\ objects.at = "for" =>
                \A k \in DOMAIN objects'.mode_states :
                    \/ /\ k \in DOMAIN objects.mode_states
                       /\ objects'.mode_states[k] = objects.mode_states[k]
                    \/ objects'.mode_states[k] > Len(objects.cells)]_vars

\* simulate returned an output that a component made from a mode the caller
\* supplied, and the caller's mode differs from it
C27_Witness ==
    /\ objects.at = "returned"
    /\ objects.last.given # EmptyDict
    /\ \E name \in DOMAIN objects.final_outputs : \E k \in DOMAIN objects.args :
          /\ objects.final_outputs[name] > objects.args[k]
          /\ objects.cells[objects.final_outputs[name]].amplitude
                # objects.cells[objects.args[k]].amplitude

=============================================================================
